---- MODULE Spec2Model ----
(***************************************************************************)
(* WAV Concatenator (page component Home, src/unnamed/part_000).           *)
(*                                                                         *)
(* The model covers the sample-domain concatenation (concatChannelData-    *)
(* Async, concatWavs) and the asynchronous submit pipeline of the page     *)
(* (OnSubmit, OnClear, the close button, handleDownload) together with     *)
(* the React state it reads and writes and the browser's object URLs.      *)
(*                                                                         *)
(* OnSubmit is an async function: it is split at its awaits.  Every        *)
(* synchronous run between two awaits is one action; a throw, the catch    *)
(* block and the finally block that follow it synchronously belong to      *)
(* the action that throws.  UI events (close, download, and submit/clear   *)
(* when their buttons are enabled) may run between any two such actions.   *)
(*                                                                         *)
(* Samples are never inspected by the code, only copied, so a sample is    *)
(* modelled by its origin <<file, channel, index>>: every sample of the    *)
(* two inputs is distinguishable in the output.                            *)
(***************************************************************************)
EXTENDS Integers, Sequences, FiniteSets, TLC

\* ---------------------------------------------------------------- bounds
MaxChannels == 2
MaxLen == 2
MaxSubmits == 2

\* ------------------------------------------------------------ option type
NULL == <<>>
Some(v) == <<v>>
Get(o) == o[1]

\* ------------------------------------------------------------- messages
MsgSampleRate == "Sample rates do not match."
MsgChannels == "Number of channels do not match."
MsgInvalidWav == "Invalid WAV file"
MsgAlloc == "Array buffer allocation failed"

\* The texts setError shows, by kind; the generic one embeds err.message.
UiMissing == [kind |-> "missingFile", detail |-> ""]
UiSampleRate == [kind |-> "sampleRateMismatch", detail |-> ""]
UiChannels == [kind |-> "channelCountMismatch", detail |-> ""]
UiGeneric(m) == [kind |-> "generic", detail |-> m]
UiUnexpected == [kind |-> "unexpected", detail |-> ""]

StepNone == ""
StepReading == "reading files"
StepConcat == "concatenating"
StepEncode == "encoding"

DefaultFileName == "concatenated.wav"
File1Name == "intro.wav"
File2Name == "loop.wav"
\* `${file1.name}_${file2.name}_concatenated.wav`
OutputFileName(n1, n2) == n1 \o "_" \o n2 \o "_concatenated.wav"

\* A thrown value: an Error with a message, or something that is no Error.
ErrorOf(m) == [isError |-> TRUE, message |-> m]
NonError == [isError |-> FALSE, message |-> ""]

\* --------------------------------------------------------------- WavData
Sample(f, c, k) == <<f, c, k>>

Channel(f, c, len) == [k \in 1..len |-> Sample(f, c, k)]

\* The WavData that decoding file f yields: n channels of equal length len.
WavData(f, rate, n, len) ==
  [sampleRate |-> rate, channelData |-> [c \in 1..n |-> Channel(f, c, len)]]

\* Sample rates are taken relative to the channel lengths: at one sample
\* per second every non-empty loop is at least a second long, at MaxLen
\* samples per second only the longest loop is.
Rates == {1, MaxLen}
ChannelCounts == 1..MaxChannels
Lengths == 0..MaxLen

\* TypedArray.prototype.slice(start, end) for 0 <= start, 0 <= end:
\* end is clamped to the length, an empty range yields an empty array.
Slice(arr, start, end) ==
  LET final == IF end > Len(arr) THEN Len(arr) ELSE end
      count == IF final - start > 0 THEN final - start ELSE 0
  IN [k \in 1..count |-> arr[start + k]]

\* A variant that repeats the head of the first channel.
concatChannelData_HeadOfIntro(channel1, channel2, sampleRate) ==
  channel1 \o channel2 \o Slice(channel1, 0, sampleRate)

\* Float32Array.from([...channel1, ...channel2, ...channel2.slice(0, sampleRate)])
concatChannelData(channel1, channel2, sampleRate) ==
  channel1 \o channel2 \o Slice(channel2, 0, sampleRate)

\* A variant that adds the channel at the front.
Push_Front(arr, x) == <<x>> \o arr

\* concatenatedChannelData.push(concatenatedChannel)
Push(arr, x) == Append(arr, x)

\* ------------------------------------------------------------- encoding
\* parseInt(formData.get("bitDepth")) || 32.  The form offers 8, 16, 24 and
\* 32; the inputs taken here are an integer depth (16), the float depth (32)
\* and a value that parses to NaN or 0 (raw 0).
BitDepthInputs == {0, 16, 32}
ParseBitDepth(raw) == IF raw = 0 THEN 32 ELSE raw

\* The options object OnSubmit hands to wav.encode.
EncodeOptions(wavData, depth) ==
  [sampleRate |-> wavData.sampleRate, float |-> TRUE, bitDepth |-> depth]

\* wav.encode(channelData, opts) of node-wav: the float option selects the floating
\* point format, which is always written at 32 bits; otherwise the integer
\* format at opts.bitDepth.  The result is described by its header fields.
wavEncode(channelData, opts) ==
  [sampleFormat |-> IF opts.float THEN "floatingPoint" ELSE "integer",
   bitDepth |-> IF opts.float THEN 32 ELSE opts.bitDepth,
   sampleRate |-> opts.sampleRate,
   frames |-> Len(channelData[1])]

\* ------------------------------------------------------------------ state
VARIABLES
  error, isProcessing, processingStep, downloadUrl, processedFileName,
  fileInfo,                    \* React state of Home
  objectUrls, nextUrl,         \* browser: live object URLs -> blob, ids handed out
  pc, bitDepth, closureUrl, decoded1, decoded2, i,
  concatenatedChannelData,     \* the running OnSubmit: position and locals
  inFlight,                    \* invocations of OnSubmit begun and not ended
  submits,                     \* invocations of OnSubmit begun so far
  stages,                      \* the stages the latest OnSubmit has run, with outcome
  written,                     \* the state the latest OnSubmit has stored results in
  uiDuring                     \* the latest button handler that changed state
                               \* while the latest OnSubmit was in flight, with
                               \* the position (pc) at which it ran

uiVars == <<error, isProcessing, processingStep, downloadUrl,
            processedFileName, fileInfo>>
urlVars == <<objectUrls, nextUrl>>
localVars == <<pc, bitDepth, closureUrl, decoded1, decoded2, i,
               concatenatedChannelData>>
histVars == <<inFlight, submits, stages, written, uiDuring>>
vars == <<uiVars, urlVars, localVars, histVars>>

Init ==
  /\ error = NULL
  /\ isProcessing = FALSE
  /\ processingStep = StepNone
  /\ downloadUrl = NULL
  /\ processedFileName = DefaultFileName
  /\ fileInfo = NULL
  /\ objectUrls = {}
  /\ nextUrl = 1
  /\ pc = "idle"
  /\ bitDepth = 32
  /\ closureUrl = NULL
  /\ decoded1 = NULL
  /\ decoded2 = NULL
  /\ i = 0
  /\ concatenatedChannelData = <<>>
  /\ inFlight = 0
  /\ submits = 0
  /\ stages = <<>>
  /\ written = {}
  /\ uiDuring = NULL

\* ------------------------------------------------------- browser: URLs
\* URL.createObjectURL(blob) hands out a fresh URL naming the blob.
createObjectURL(urls, url, blob) == urls \cup {[url |-> url, blob |-> blob]}

\* A variant that revokes nothing.
revokeObjectURL_Nothing(urls, url) == urls

\* URL.revokeObjectURL(url): the URL stops naming its blob; revoking a URL
\* that is not live does nothing.
revokeObjectURL(urls, url) == {u \in urls : u.url # url}

LiveUrls == {u.url : u \in objectUrls}

\* -------------------------------------------------- OnSubmit: its blocks
\* The catch block of OnSubmit: the text shown for a thrown value.
Catch(err) ==
  IF err.isError
    THEN IF err.message = MsgSampleRate THEN UiSampleRate
         ELSE IF err.message = MsgChannels THEN UiChannels
         ELSE UiGeneric(err.message)
    ELSE UiUnexpected

\* A variant that leaves the flag as it is.
FinallyBlock_FlagKept == isProcessing' = isProcessing

\* The finally block of OnSubmit (lines 134-136).
FinallyBlock == isProcessing' = FALSE

\* The end of an invocation of OnSubmit that went past its first await: the
\* finally block runs, the invocation is over and its locals are dropped.
Finally ==
  /\ FinallyBlock
  /\ inFlight' = inFlight - 1
  /\ pc' = "idle"
  /\ bitDepth' = 32
  /\ closureUrl' = NULL
  /\ decoded1' = NULL
  /\ decoded2' = NULL
  /\ i' = 0
  /\ concatenatedChannelData' = <<>>

\* A throw at `stage`: the catch block, then the finally block.
Throw(stage, err) ==
  /\ error' = Some(Catch(err))
  /\ stages' = Append(stages, [stage |-> stage, ok |-> FALSE])
  /\ Finally

\* A variant with the submit button never disabled.
SubmitEnabled_Always == TRUE

\* A handler other than OnSubmit ran: noted when an OnSubmit is in flight.
Handled(name) ==
  uiDuring' = IF inFlight > 0 THEN Some([name |-> name, at |-> pc]) ELSE uiDuring

\* The submit button carries disabled={isProcessing} (line 231).
SubmitEnabled == ~isProcessing

\* The clear button carries disabled={isProcessing} (line 256).
ClearEnabled == ~isProcessing

\* OnSubmit, a file missing from the form data: setError(null),
\* setIsProcessing(true), the early return, the finally block.
SubmitMissingFile ==
  /\ SubmitEnabled
  /\ submits < MaxSubmits
  /\ \E has1, has2 \in BOOLEAN :
       /\ ~has1 \/ ~has2
       /\ error' = Some(UiMissing)
  /\ FinallyBlock
  /\ submits' = submits + 1
  /\ stages' = <<>>
  /\ written' = {}
  /\ uiDuring' = NULL
  /\ pc' = "idle"
  /\ UNCHANGED <<processingStep, downloadUrl, processedFileName, fileInfo,
                 urlVars, bitDepth, closureUrl, decoded1, decoded2, i,
                 concatenatedChannelData, inFlight>>

\* OnSubmit up to its first await (line 90): both files are present.
SubmitStart ==
  /\ SubmitEnabled
  /\ submits < MaxSubmits
  /\ \E raw \in BitDepthInputs : bitDepth' = ParseBitDepth(raw)
  /\ error' = NULL
  /\ isProcessing' = TRUE
  /\ processingStep' = StepReading
  /\ closureUrl' = downloadUrl
  /\ pc' = "decode1"
  /\ decoded1' = NULL
  /\ decoded2' = NULL
  /\ i' = 0
  /\ concatenatedChannelData' = <<>>
  /\ inFlight' = inFlight + 1
  /\ submits' = submits + 1
  /\ stages' = <<>>
  /\ written' = {}
  /\ uiDuring' = NULL
  /\ UNCHANGED <<downloadUrl, processedFileName, fileInfo, urlVars>>

\* What reading and decoding a file can throw.
DecodeErrors == {ErrorOf(MsgInvalidWav), NonError}

\* await decodeWavFile(file1) settles (line 90).
Decode1Ok ==
  /\ pc = "decode1"
  /\ \E rate \in Rates, n \in ChannelCounts, len \in Lengths :
       decoded1' = Some(WavData(1, rate, n, len))
  /\ stages' = Append(stages, [stage |-> "decode1", ok |-> TRUE])
  /\ pc' = "decode2"
  /\ UNCHANGED <<uiVars, urlVars, bitDepth, closureUrl, decoded2, i,
                 concatenatedChannelData, inFlight, submits, written,
                 uiDuring>>

\* A variant that reports the failure and goes on to the second file.
Decode1Fail_GoesOn ==
  /\ pc = "decode1"
  /\ \E err \in DecodeErrors : error' = Some(Catch(err))
  /\ stages' = Append(stages, [stage |-> "decode1", ok |-> FALSE])
  /\ decoded1' = Some(WavData(1, 1, 1, 0))
  /\ pc' = "decode2"
  /\ UNCHANGED <<isProcessing, processingStep, downloadUrl, processedFileName,
                 fileInfo, urlVars, bitDepth, closureUrl, decoded2, i,
                 concatenatedChannelData, inFlight, submits, written,
                 uiDuring>>

\* await decodeWavFile(file1) rejects: catch and finally.
Decode1Fail ==
  /\ pc = "decode1"
  /\ \E err \in DecodeErrors : Throw("decode1", err)
  /\ UNCHANGED <<processingStep, downloadUrl, processedFileName, fileInfo,
                 urlVars, submits, written, uiDuring>>

\* await decodeWavFile(file2) settles (line 91); then line 93 and the call
\* of concatWavs.
Decode2Ok ==
  /\ pc = "decode2"
  /\ \E rate \in Rates, n \in ChannelCounts, len \in Lengths :
       decoded2' = Some(WavData(2, rate, n, len))
  /\ stages' = Append(stages, [stage |-> "decode2", ok |-> TRUE])
  /\ processingStep' = StepConcat
  /\ pc' = "concat"
  /\ UNCHANGED <<error, isProcessing, downloadUrl, processedFileName,
                 fileInfo, urlVars, bitDepth, closureUrl, decoded1, i,
                 concatenatedChannelData, inFlight, submits, written,
                 uiDuring>>

\* await decodeWavFile(file2) rejects: catch and finally.
Decode2Fail ==
  /\ pc = "decode2"
  /\ \E err \in DecodeErrors : Throw("decode2", err)
  /\ UNCHANGED <<processingStep, downloadUrl, processedFileName, fileInfo,
                 urlVars, submits, written, uiDuring>>

\* ------------------------------------------------------------ concatWavs
wav1 == Get(decoded1)
wav2 == Get(decoded2)

\* A variant without the channel count check.
ConcatCheckOk_NoChannelCheck ==
  /\ pc = "concat"
  /\ wav1.sampleRate = wav2.sampleRate
  /\ concatenatedChannelData' = <<>>
  /\ i' = 0
  /\ pc' = "raf"
  /\ UNCHANGED <<uiVars, urlVars, bitDepth, closureUrl, decoded1, decoded2,
                 histVars>>

\* concatWavs up to its first await: the two checks (lines 33-38), then the
\* loop is entered and the first animation frame is requested.
ConcatCheckOk ==
  /\ pc = "concat"
  /\ wav1.sampleRate = wav2.sampleRate
  /\ Len(wav1.channelData) = Len(wav2.channelData)
  /\ concatenatedChannelData' = <<>>
  /\ i' = 0
  /\ pc' = "raf"
  /\ UNCHANGED <<uiVars, urlVars, bitDepth, closureUrl, decoded1, decoded2,
                 histVars>>

\* A variant that checks the channel counts before the sample rates.
ConcatCheckFail_ChannelsFirst ==
  /\ pc = "concat"
  /\ \/ /\ Len(wav1.channelData) # Len(wav2.channelData)
        /\ Throw("concat", ErrorOf(MsgChannels))
     \/ /\ Len(wav1.channelData) = Len(wav2.channelData)
        /\ wav1.sampleRate # wav2.sampleRate
        /\ Throw("concat", ErrorOf(MsgSampleRate))
  /\ UNCHANGED <<processingStep, downloadUrl, processedFileName, fileInfo,
                 urlVars, submits, written, uiDuring>>

\* The throwing exits of the two checks of concatWavs (lines 33-38).
ConcatCheckFail ==
  /\ pc = "concat"
  /\ \/ /\ wav1.sampleRate # wav2.sampleRate
        /\ Throw("concat", ErrorOf(MsgSampleRate))
     \/ /\ wav1.sampleRate = wav2.sampleRate
        /\ Len(wav1.channelData) # Len(wav2.channelData)
        /\ Throw("concat", ErrorOf(MsgChannels))
  /\ UNCHANGED <<processingStep, downloadUrl, processedFileName, fileInfo,
                 urlVars, submits, written, uiDuring>>

\* The animation frame callback of concatChannelDataAsync for channel i
\* (0-based, as in the code) and the push that follows its await.  With a
\* further channel to come the loop waits on setTimeout; after the last
\* one concatWavs returns and OnSubmit resumes at line 94.
AnimationFrame ==
  /\ pc = "raf"
  /\ LET concatenatedChannel ==
           concatChannelData(wav1.channelData[i + 1], wav2.channelData[i + 1],
                             wav2.sampleRate)
     IN concatenatedChannelData' = Push(concatenatedChannelData, concatenatedChannel)
  /\ IF i < Len(wav1.channelData) - 1
       THEN /\ pc' = "timer"
            /\ stages' = stages
       ELSE /\ pc' = "encode"
            /\ stages' = Append(stages, [stage |-> "concat", ok |-> TRUE])
  /\ UNCHANGED <<uiVars, urlVars, bitDepth, closureUrl, decoded1, decoded2, i,
                 inFlight, submits, written, uiDuring>>

\* The 10 ms timer between two channels fires: i++ and the next animation
\* frame is requested.
TimerFired ==
  /\ pc = "timer"
  /\ i' = i + 1
  /\ pc' = "raf"
  /\ UNCHANGED <<uiVars, urlVars, bitDepth, closureUrl, decoded1, decoded2,
                 concatenatedChannelData, histVars>>

\* The value concatWavs returns (line 57).
concatenated ==
  [sampleRate |-> wav1.sampleRate, channelData |-> concatenatedChannelData]

\* ----------------------------------------------- OnSubmit, lines 96-120
setFileInfo ==
  Some([introLength |-> Len(wav1.channelData[1]),
        loopLength |-> Len(wav2.channelData[1]),
        sampleRate |-> wav1.sampleRate])

\* The total the file info panel shows (line 360).
TotalShown(info) == info.introLength + info.loopLength + info.sampleRate

\* Lines 96-120 with wav.encode returning: the blob gets a fresh URL, the
\* URL this invocation's closure holds is revoked, the new one is stored.
EncodeOk ==
  /\ pc = "encode"
  /\ fileInfo' = setFileInfo
  /\ written' = {"fileInfo", "downloadUrl"}
  /\ processingStep' = StepEncode
  /\ LET encoded == wavEncode(concatenated.channelData,
                              EncodeOptions(concatenated, bitDepth))
         url == nextUrl
         created == createObjectURL(objectUrls, url, encoded)
     IN /\ objectUrls' = IF closureUrl # NULL
                           THEN revokeObjectURL(created, Get(closureUrl))
                           ELSE created
        /\ nextUrl' = nextUrl + 1
        /\ downloadUrl' = Some(url)
  /\ processedFileName' = OutputFileName(File1Name, File2Name)
  /\ stages' = Append(stages, [stage |-> "encode", ok |-> TRUE])
  /\ Finally
  /\ UNCHANGED <<error, submits, uiDuring>>

\* Lines 96-109 with wav.encode throwing (its output buffer cannot be
\* allocated): the file info of line 97 is already stored.
EncodeFail ==
  /\ pc = "encode"
  /\ fileInfo' = setFileInfo
  /\ written' = {"fileInfo"}
  /\ processingStep' = StepEncode
  /\ Throw("encode", ErrorOf(MsgAlloc))
  /\ UNCHANGED <<downloadUrl, processedFileName, urlVars, submits, uiDuring>>

\* ------------------------------------------------------- other handlers
OnClear ==
  /\ ClearEnabled
  /\ error' = NULL
  /\ processingStep' = StepNone
  /\ fileInfo' = NULL
  /\ IF downloadUrl # NULL
       THEN /\ objectUrls' = revokeObjectURL(objectUrls, Get(downloadUrl))
            /\ downloadUrl' = NULL
       ELSE UNCHANGED <<objectUrls, downloadUrl>>
  /\ Handled("OnClear")
  /\ UNCHANGED <<isProcessing, processedFileName, nextUrl, localVars,
                 inFlight, submits, stages, written>>

\* The close button (lines 379-386); it is rendered only with a downloadUrl
\* and is not disabled while a submit is processing.
OnClose ==
  /\ downloadUrl # NULL
  /\ objectUrls' = revokeObjectURL(objectUrls, Get(downloadUrl))
  /\ downloadUrl' = NULL
  /\ fileInfo' = NULL
  /\ Handled("OnClose")
  /\ UNCHANGED <<error, isProcessing, processingStep, processedFileName,
                 nextUrl, localVars, inFlight, submits, stages, written>>

\* The download button, rendered only with a downloadUrl: a link to it is
\* clicked; no state of the page changes.
handleDownload ==
  /\ downloadUrl # NULL
  /\ UNCHANGED vars

\* ------------------------------------------------------- specification
Continue ==
  \/ Decode1Ok \/ Decode1Fail \/ Decode2Ok \/ Decode2Fail
  \/ ConcatCheckOk \/ ConcatCheckFail \/ AnimationFrame \/ TimerFired
  \/ EncodeOk \/ EncodeFail

Next ==
  \/ SubmitMissingFile
  \/ SubmitStart
  \/ Decode1Ok
  \/ Decode1Fail
  \/ Decode2Ok
  \/ Decode2Fail
  \/ ConcatCheckOk
  \/ ConcatCheckFail
  \/ AnimationFrame
  \/ TimerFired
  \/ EncodeOk
  \/ EncodeFail
  \/ OnClear
  \/ OnClose
  \/ handleDownload

Spec == Init /\ [][Next]_vars

\* The browser runs every callback it has scheduled and settles every read
\* it has started: a continuation of OnSubmit that is enabled is taken.
FairSpec == Spec /\ WF_vars(Continue)

TypeOK ==
  /\ isProcessing \in BOOLEAN
  /\ pc \in {"idle", "decode1", "decode2", "concat", "raf", "timer", "encode"}
  /\ inFlight \in 0..MaxSubmits
  /\ submits \in 0..MaxSubmits

\* ================================================================ claims
Min(a, b) == IF a < b THEN a ELSE b

Last(seq) == seq[Len(seq)]

\* The latest OnSubmit ended with a throw at `stage`.
FailedAt(stage) ==
  /\ pc = "idle"
  /\ stages # <<>>
  /\ Last(stages) = [stage |-> stage, ok |-> FALSE]

\* A step of the running OnSubmit out of the call of concatWavs.
ConcatCallStep == pc = "concat" /\ pc' # pc

\* The step throws out of concatWavs before any channel was concatenated:
\* no buffer is returned and the request is over.
ConcatThrows ==
  /\ pc' = "idle"
  /\ concatenatedChannelData = <<>>
  /\ stages' = Append(stages, [stage |-> "concat", ok |-> FALSE])

\* C1: with equal sample rates and channel counts, every channel c of the
\* buffer concatWavs returns is intro channel c, then the whole of loop
\* channel c, then the first min(sampleRate, length) samples of loop
\* channel c; its length is intro + loop + min(sampleRate, loop).
C1_ConcatLaw ==
  pc = "encode" =>
    /\ wav1.sampleRate = wav2.sampleRate
    /\ Len(wav1.channelData) = Len(wav2.channelData)
    /\ concatenated.sampleRate = wav1.sampleRate
    /\ Len(concatenated.channelData) = Len(wav1.channelData)
    /\ \A c \in 1..Len(wav1.channelData) :
         LET intro == wav1.channelData[c]
             loop == wav2.channelData[c]
             out == concatenated.channelData[c]
             head == Min(wav2.sampleRate, Len(loop))
         IN /\ Len(out) = Len(intro) + Len(loop) + head
            /\ \A k \in 1..Len(intro) : out[k] = intro[k]
            /\ \A k \in 1..Len(loop) : out[Len(intro) + k] = loop[k]
            /\ \A k \in 1..head : out[Len(intro) + Len(loop) + k] = loop[k]

\* A stereo pair whose loop is shorter than one second has been concatenated.
C1_Witness ==
  /\ pc = "encode"
  /\ Len(wav1.channelData) = 2
  /\ Len(wav1.channelData[1]) = 2
  /\ Len(wav2.channelData[1]) = 1
  /\ wav2.sampleRate = 2
  /\ Len(concatenated.channelData[2]) = 4

\* C2: concatWavs with differing sample rates throws the sample rate
\* mismatch error, whatever the channel counts are, before any channel is
\* concatenated, and returns no buffer.
C2_SampleRateMismatch ==
  [][(ConcatCallStep /\ wav1.sampleRate # wav2.sampleRate)
       => (ConcatThrows /\ error' = Some(UiSampleRate))]_vars

C2_Witness == FailedAt("concat") /\ error = Some(UiSampleRate)

\* C3 as stated: concatWavs with differing channel counts throws the
\* channel count mismatch error.
C3_ChannelCountMismatch_Original ==
  [][(ConcatCallStep /\ Len(wav1.channelData) # Len(wav2.channelData))
       => (ConcatThrows /\ error' = Some(UiChannels))]_vars

\* C3 amended: concatWavs with differing channel counts returns no buffer
\* and concatenates no channel; it throws the channel count mismatch error
\* when the sample rates are equal and the sample rate mismatch error when
\* they differ too.
C3_ChannelCountMismatch ==
  [][(ConcatCallStep /\ Len(wav1.channelData) # Len(wav2.channelData))
       => /\ ConcatThrows
          /\ error' = Some(IF wav1.sampleRate = wav2.sampleRate
                             THEN UiChannels ELSE UiSampleRate)]_vars

C3_Witness == FailedAt("concat") /\ error = Some(UiChannels)

\* C4 as stated: the encoded result has the sample format its requested
\* bitDepth determines, floatingPoint for 32 and integer for 8, 16 and 24,
\* at that bit depth.
C4_FormatByBitDepth ==
  [][(pc = "encode" /\ FailedAt("encode")' = FALSE /\ pc' = "idle")
       => \E u \in objectUrls' :
            /\ u.url = Get(downloadUrl')
            /\ u.blob.bitDepth = bitDepth
            /\ u.blob.sampleFormat =
                 (IF bitDepth = 32 THEN "floatingPoint" ELSE "integer")]_vars

\* C5 as stated: after a submit that failed, no download URL and no file
\* info written by that submit is held, and no download result is shown
\* together with the error.
C5_NoPartialOutput ==
  (pc = "idle" /\ stages # <<>> /\ ~Last(stages).ok)
    => /\ ~("downloadUrl" \in written /\ downloadUrl # NULL)
       /\ ~("fileInfo" \in written /\ fileInfo # NULL)
       /\ ~(error # NULL /\ downloadUrl # NULL)

\* The plain sequential loop over the channels, from channel k on.
RECURSIVE SequentialLoop(_, _, _, _)
SequentialLoop(w1, w2, k, acc) ==
  IF k > Len(w1.channelData)
    THEN acc
    ELSE SequentialLoop(w1, w2, k + 1,
           Append(acc, concatChannelData(w1.channelData[k], w2.channelData[k],
                                         w2.sampleRate)))

\* C6: at every yield point of concatWavs, whatever UI events have run in
\* between, the channels built so far are whole, in index order, the ones
\* the plain sequential loop builds from the same inputs; the buffer
\* returned is the sequential loop's result.
C6_ScheduleIndependent ==
  LET sequential == SequentialLoop(wav1, wav2, 1, <<>>)
  IN /\ pc = "raf" => concatenatedChannelData = SubSeq(sequential, 1, i)
     /\ pc = "timer" => concatenatedChannelData = SubSeq(sequential, 1, i + 1)
     /\ pc = "encode" => concatenatedChannelData = sequential

\* Two channels are done and a UI event ran at a yield point in between.
C6_Witness ==
  /\ pc = "encode"
  /\ Len(concatenatedChannelData) = 2
  /\ uiDuring # NULL
  /\ Get(uiDuring).name = "OnClose"
  /\ Get(uiDuring).at \in {"raf", "timer"}

StageOrder == <<"decode1", "decode2", "concat", "encode">>

\* C8: the stages of a submit run in the order decode1, decode2, concat,
\* encode; a stage runs only after all earlier ones succeeded and none
\* runs after a failed one.
C8_StageOrder ==
  /\ Len(stages) <= Len(StageOrder)
  /\ \A k \in 1..Len(stages) :
       /\ stages[k].stage = StageOrder[k]
       /\ k < Len(stages) => stages[k].ok
  /\ pc # "idle" => \A k \in 1..Len(stages) : stages[k].ok
  /\ pc = "decode1" => Len(stages) = 0
  /\ pc = "decode2" => Len(stages) = 1
  /\ pc \in {"concat", "raf", "timer"} => Len(stages) = 2
  /\ pc = "encode" => Len(stages) = 3

C8_Witness ==
  /\ pc = "idle"
  /\ stages = <<[stage |-> "decode1", ok |-> TRUE],
                [stage |-> "decode2", ok |-> FALSE]>>

ResultShown ==
  /\ pc = "idle"
  /\ written = {"fileInfo", "downloadUrl"}
  /\ fileInfo # NULL
  /\ downloadUrl # NULL

\* C11 as stated: after a successful submit the total shown from the file
\* info equals the per-channel length of the buffer that was encoded, for
\* every intro and loop length.
C11_TotalMatchesEncoded ==
  ResultShown =>
    \A u \in objectUrls :
      u.url = Get(downloadUrl) => TotalShown(Get(fileInfo)) = u.blob.frames

====
